---- MODULE Spec2Model ----
(***************************************************************************)
(* State-machine model of the todofy LLM service: the sliding-window       *)
(* TokenTracker (src/llm/consts_test.go:100-187) and the Summarize         *)
(* orchestration with model fallback (src/unnamed/part_009).               *)
(***************************************************************************)
EXTENDS Integers, Sequences, FiniteSets, TLC

\* ---------------------------------------------------------------- bounds
MaxTime == 2        \* the injected clock runs over 0..MaxTime
Window == 1         \* TokenTracker.window, in clock units
MaxRecords == 2     \* Record calls explored per behaviour
MaxCost == 2        \* small token counts are 0..MaxCost
MaxProbes == 2      \* health probes explored per service
MaxElapsed == 13    \* WaitForHealthy is followed for MaxElapsed x 100 ms
MaxCloses == 2      \* GRPCClients.Close() calls explored per behaviour
MaxRateTime == 4    \* the rate limiter's clock runs over 0..MaxRateTime
MaxRequests == 4    \* HTTP requests explored per behaviour

\* ------------------------------------------------------- int32 arithmetic
\* tokenRecord.tokens, TokenTracker.limit and every total are int32.
MaxInt32 == 2147483647
MinInt32 == (-MaxInt32) - 1

\* Mutant of Add32: the sum saturates at the ends of the int32 range.
Add32Saturating(a, b) ==
    IF a > 0 /\ b > 0 /\ a > MaxInt32 - b
    THEN MaxInt32
    ELSE IF a < 0 /\ b < 0 /\ a < MinInt32 - b
    THEN MinInt32
    ELSE a + b

\* Go's int32 addition: two's-complement wrap-around, computed without ever
\* leaving the 32-bit range.
Add32(a, b) ==
    IF a > 0 /\ b > 0 /\ a > MaxInt32 - b
    THEN ((a - MaxInt32) - 1) + ((b - MaxInt32) - 1)
    ELSE IF a < 0 /\ b < 0 /\ a < MinInt32 - b
    THEN ((a + MaxInt32) + 1) + ((b + MaxInt32) + 1)
    ELSE a + b

\* A token count close to the int32 ceiling, and the token counts explored.
BigCost == MaxInt32 - 1
CostSet == (0..MaxCost) \cup {BigCost}
\* NewTokenTracker(window, limit): the limits explored (<= 0 disables).
LimitSet == {-1, 0, MaxCost + 1}

VARIABLES
    records,   \* TokenTracker.records: sequence of [timestamp, tokens]
    limit,     \* TokenTracker.limit
    now,       \* what TokenTracker.timeFunc() returns
    appended,  \* history: every tokenRecord ever appended, never pruned
    ret,       \* the last TokenTracker call and what it returned
    apiKey,    \* *geminiAPIKey
    hasTracker,\* llmServer.tracker != nil
    handlers,  \* the request goroutines of this run (one RPC each)
    proc,      \* per handler: the locals of Summarize .. summaryByGemini
    obs        \* per handler: what the backend and the sleeper saw of the call

trackerVars == <<records, limit, now, appended>>
serverVars == <<apiKey, hasTracker, handlers, proc, obs>>

VARIABLES
    services,  \* GRPCClients.services: the names of the connections of the pool
    ctxDone,   \* the ctx handed to WaitForHealthy is done (its deadline passed)
    pollers,   \* per service: the health-check goroutine of WaitForHealthy
    waited,    \* WaitForHealthy: "none", "running", or what it returned
    errChan,   \* errChan: what the goroutines have sent, in order of sending
    errors,    \* var errors []error of WaitForHealthy (the service each one names)
    elapsed,   \* time since ctx was created, in units of 100 ms
    deadline,  \* the deadline of ctx on that scale (NoDeadline: it has none)
    timeout,   \* the timeout argument of WaitForHealthy, on that scale
    healthyFrom, \* per service: the time from which its Check answers SERVING
    mainPc,    \* where main (or another caller of the pool) is
    pool,      \* NewGRPCClients: "building", "ready" (returned clients), "nil"
    todo,      \* NewGRPCClients: the configs its range loop has not reached yet
    conns,     \* per service: the grpc.ClientConn opened for it
    closeCalls \* GRPCClients.Close() calls made by the caller

VARIABLES
    requestsCount, \* RateLimitMiddleware: requestsCount of the closure
    resetTime,     \* RateLimitMiddleware: resetTime of the closure
    wall,          \* time.Now() as the middleware reads it, in half minutes
    requests       \* the requests that went through the middleware, in order

rateVars == <<requestsCount, resetTime, wall, requests>>
clockVars == <<elapsed, deadline, timeout, healthyFrom>>
mainVars == <<mainPc, pool, todo, conns, closeCalls>>
gateVars == <<services, ctxDone, pollers, waited, errChan, errors, clockVars, mainVars,
              rateVars>>
llmVars == <<records, limit, now, appended, ret, apiKey, hasTracker, handlers, proc, obs,
             rateVars>>

\* ------------------------------------------------------------ TokenTracker
tokenRecord(t, n) == [timestamp |-> t, tokens |-> n]

\* prune: the number of leading records whose timestamp is Before(cutoff).
RECURSIVE pruneIndex(_, _, _)
pruneIndex(recs, cutoff, i) ==
    IF i < Len(recs) /\ recs[i + 1].timestamp < cutoff
    THEN pruneIndex(recs, cutoff, i + 1)
    ELSE i

\* Mutant of prune: a record stamped exactly at the cutoff is dropped as well.
pruneAtCutoff(recs, t) ==
    LET i == pruneIndex(recs, t - Window + 1, 0)
    IN  SubSeq(recs, i + 1, Len(recs))

\* prune: t.records = t.records[i:], with cutoff = timeFunc().Add(-window).
prune(recs, t) ==
    LET i == pruneIndex(recs, t - Window, 0)
    IN  SubSeq(recs, i + 1, Len(recs))

\* var total int32; for _, r := range t.records { total += r.tokens }
RECURSIVE total32(_)
total32(recs) ==
    IF recs = <<>> THEN 0
    ELSE Add32(total32(SubSeq(recs, 1, Len(recs) - 1)), recs[Len(recs)].tokens)

LimitExceededMsg == "daily token limit exceeded"

\* The comparison of CheckLimit, on the pruned records.
overLimit(recs, tokens, lim) == Add32(total32(recs), tokens) > lim

\* CheckLimit: the records it leaves behind (no lock, no prune when disabled).
checkLimitRecords(recs, lim, t) == IF lim <= 0 THEN recs ELSE prune(recs, t)

\* CheckLimit: the message it returns.
checkLimitMsg(recs, tokens, lim, t) ==
    IF lim <= 0 THEN ""
    ELSE IF overLimit(prune(recs, t), tokens, lim) THEN LimitExceededMsg
    ELSE ""

Call(op, tokens, usage, msg) ==
    [op |-> op, tokens |-> tokens, usage |-> usage, msg |-> msg, at |-> now]

\* TokenTracker.Record(tokens)
Record(tokens) ==
    /\ Len(appended) < MaxRecords
    /\ records' = Append(records, tokenRecord(now, tokens))
    /\ appended' = Append(appended, tokenRecord(now, tokens))
    /\ ret' = Call("Record", tokens, 0, "")
    /\ UNCHANGED <<limit, now, serverVars, gateVars>>

\* TokenTracker.CurrentUsage()
CurrentUsage ==
    /\ records' = prune(records, now)
    /\ ret' = Call("CurrentUsage", 0, total32(prune(records, now)), "")
    /\ UNCHANGED <<limit, now, appended, serverVars, gateVars>>

\* Mutant of CheckLimit: a check that passes also records the checked tokens.
CheckLimitAlsoRecords(tokens) ==
    /\ records' = IF checkLimitMsg(records, tokens, limit, now) = ""
                     /\ Len(appended) < MaxRecords
                  THEN Append(checkLimitRecords(records, limit, now),
                              tokenRecord(now, tokens))
                  ELSE checkLimitRecords(records, limit, now)
    /\ ret' = Call("CheckLimit", tokens, 0, checkLimitMsg(records, tokens, limit, now))
    /\ UNCHANGED <<limit, now, appended, serverVars, gateVars>>

\* TokenTracker.CheckLimit(tokens)
CheckLimit(tokens) ==
    /\ records' = checkLimitRecords(records, limit, now)
    /\ ret' = Call("CheckLimit", tokens, 0, checkLimitMsg(records, tokens, limit, now))
    /\ UNCHANGED <<limit, now, appended, serverVars, gateVars>>

\* tracker.timeFunc = func() time.Time { return t }: the injected time source
\* is replaced by one that returns t, earlier or later than the previous one.
SetTimeFunc(t) ==
    /\ t # now
    /\ now' = t
    /\ UNCHANGED <<records, limit, appended, ret, serverVars, gateVars>>

\* The time source moves forward (a non-decreasing clock).
Tick ==
    /\ now < MaxTime
    /\ now' = now + 1
    /\ UNCHANGED <<records, limit, appended, ret, serverVars, gateVars>>

\* ------------------------------------------------------------ ModelCatalog
Unspecified == "MODEL_UNSPECIFIED"
Gemini == "MODEL_FAMILY_GEMINI"

\* var llmModelNames
llmModelNames ==
    [m \in {"MODEL_GEMINI_2_0_FLASH", "MODEL_GEMINI_2_5_PRO", "MODEL_GEMINI_2_5_FLASH",
            "MODEL_GEMINI_2_5_FLASH_LITE", "MODEL_GEMINI_2_0_FLASH_LITE"} |->
        CASE m = "MODEL_GEMINI_2_0_FLASH" -> "gemini-2.0-flash"
          [] m = "MODEL_GEMINI_2_5_PRO" -> "gemini-2.5-pro"
          [] m = "MODEL_GEMINI_2_5_FLASH" -> "gemini-2.5-flash"
          [] m = "MODEL_GEMINI_2_5_FLASH_LITE" -> "gemini-2.5-flash-lite"
          [] m = "MODEL_GEMINI_2_0_FLASH_LITE" -> "gemini-2.0-flash-lite"]

\* var llmModelPriority
llmModelPriority ==
    <<"MODEL_GEMINI_2_5_PRO", "MODEL_GEMINI_2_5_FLASH", "MODEL_GEMINI_2_5_FLASH_LITE",
      "MODEL_GEMINI_2_0_FLASH", "MODEL_GEMINI_2_0_FLASH_LITE">>

\* var supportedModelFamily
supportedModelFamily == <<Gemini>>

\* const tokenLimit int32
tokenLimit == 1048576

\* Mutant of Contains: every family passes the membership test.
ContainsAnything(seq, x) == TRUE

\* slices.Contains
Contains(seq, x) == \E i \in 1..Len(seq) : seq[i] = x

\* ------------------------------------------------------- request inputs
\* pb.ModelFamily values sent by callers.
FamilySet == {Gemini, "MODEL_FAMILY_UNSPECIFIED"}
\* pb.Model values sent by callers: none, one with a name, one without.
ModelSet == {Unspecified, "MODEL_GEMINI_2_5_FLASH", "MODEL_GEMINI_3_FLASH_PREVIEW"}
\* req.MaxTokens values sent by callers (0 selects tokenLimit).
MaxTokensSet == {0, 1}
PromptSet == {"P:"}
TextSet == {"0123456789ab"}
\* Candidate lists handed to summaryInternal directly.
DirectModels ==
    {<<"MODEL_GEMINI_2_5_FLASH", "MODEL_GEMINI_3_FLASH_PREVIEW", "MODEL_GEMINI_2_5_PRO">>}

\* ------------------------------------------------------ backend answers
\* CountTokensResponse.TotalTokens values the backend answers with.
CountSet == 1..MaxCost
\* UsageMetadata.TotalTokenCount when the response carries usage metadata.
UsageTotal == MaxCost + 2
noResp == [kind |-> "none", text |-> "", hasUsage |-> FALSE, total |-> 0]
\* GenerateContent: an error, or a response in each shape the code inspects.
GenerateSet ==
    {[kind |-> k, text |-> "", hasUsage |-> FALSE, total |-> 0] :
        k \in {"error", "nocandidates", "nilcontent", "noparts"}}
    \cup {[kind |-> "ok", text |-> t, hasUsage |-> u, total |-> IF u THEN UsageTotal ELSE 0] :
        t \in {"", "S"}, u \in BOOLEAN}

\* ------------------------------------------------------------- handlers
\* The request goroutines: the gRPC server runs each RPC in its own.
Handlers == {"h1", "h2"}

\* cancelled: the request's ctx is done (ctx.Err() != nil).
idleProc ==
    [pc |-> "idle", entry |-> "", family |-> "", reqModel |-> Unspecified,
     models |-> <<>>, maxTokens |-> 0,
     prompt |-> "", content |-> "", idx |-> 0, text |-> "", count |-> 0,
     resp |-> noResp, err |-> "", summary |-> "", model |-> Unspecified,
     cancelled |-> FALSE]

\* attempted: the models tryGenerateSummary was called for, in order;
\* contact: the model of the latest backend call (CountTokens or GenerateContent);
\* genCalls, genErrs: GenerateContent calls of this request, and those that
\* returned an error; gen, recorded: GenerateContent and Record calls of the
\* current attempt; sleeps: backoffs slept by this request; outcome: how the
\* latest attempt ended; out: the text of the latest valid response;
\* before: TokenTracker.records when the current attempt started;
\* measured: the text of the first CountTokens call of the current attempt;
\* truncated: the current attempt has run the truncation loop;
\* sent: the text of the GenerateContent call of the current attempt;
\* lastText, lastSize: the text of the latest CountTokens call of the current
\* attempt and the size it answered; budgeted: the size the current attempt
\* passed to CheckLimit (-1: no CheckLimit call).
idleObs ==
    [attempted |-> <<>>, contact |-> Unspecified, genCalls |-> 0, genErrs |-> 0,
     gen |-> 0, recorded |-> 0, sleeps |-> 0, outcome |-> "none", out |-> "",
     before |-> <<>>, measured |-> "", truncated |-> FALSE, sent |-> "",
     lastText |-> "", lastSize |-> 0, budgeted |-> -1]

\* What the observer notes when tryGenerateSummary returns to summaryInternal.
ended(o, q) ==
    [o EXCEPT !.outcome = CASE q.pc = "failed" -> "failed"
                            [] q.pc = "done" -> "ok"
                            [] q.pc = "loop" -> "empty"
                            [] OTHER -> "running"]

\* The locals of summaryByGemini go out of scope when it returns.
dropLocals(q) == [q EXCEPT !.text = "", !.count = 0, !.resp = noResp]

\* Summarize returns (or summaryInternal does, when called directly).
returns(q, summary, model, err) ==
    [idleProc EXCEPT !.pc = "done", !.entry = q.entry, !.family = q.family,
                     !.reqModel = q.reqModel, !.models = q.models, !.idx = q.idx,
                     !.summary = summary, !.model = model, !.err = err]

\* Mutant of contentWithPrompt: the newline between prompt and body is lost.
contentWithPromptGlued(prompt, content) == prompt \o content

\* fmt.Sprintf("%s\n%s", prompt, content)
contentWithPrompt(prompt, content) == prompt \o "\n" \o content

\* Mutant of truncate: the tail of the text is kept instead of its head.
truncateKeepsTail(text) ==
    SubSeq(text, Len(text) - (Len(text) \div 10) * 9 + 1, Len(text))

\* contentWithPrompt[:len(contentWithPrompt)/10*9]
truncate(text) == SubSeq(text, 1, (Len(text) \div 10) * 9)

\* maxTokens := tokenLimit; if req.MaxTokens != 0 { maxTokens = req.MaxTokens }
resolveMaxTokens(maxTokens) == IF maxTokens # 0 THEN maxTokens ELSE tokenLimit

\* Mutant of selectedModels: the requested model is ignored.
selectedModelsIgnoresRequest(model) == llmModelPriority

\* selectedModels := llmModelPriority; if req.Model != MODEL_UNSPECIFIED { ... }
selectedModels(model) == IF model # Unspecified THEN <<model>> ELSE llmModelPriority

\* llmServer.Summarize, up to its call of summaryInternal.
Summarize(p, family, model, maxTokens, prompt, content) ==
    /\ p \in handlers
    /\ proc[p].pc = "idle"
    /\ obs' = [obs EXCEPT ![p] = idleObs]
    /\ proc' = [proc EXCEPT ![p] =
          IF ~Contains(supportedModelFamily, family)
          THEN returns([idleProc EXCEPT !.entry = "Summarize", !.family = family,
                                        !.reqModel = model],
                       "", Unspecified, "unsupported model family")
          ELSE [idleProc EXCEPT
                  !.pc = "loop", !.entry = "Summarize", !.family = family,
                  !.reqModel = model,
                  !.maxTokens = resolveMaxTokens(maxTokens),
                  !.prompt = prompt, !.content = content,
                  !.models = selectedModels(model)]]
    /\ UNCHANGED <<trackerVars, ret, apiKey, hasTracker, handlers, gateVars>>

\* llmServer.summaryInternal called directly with a candidate list.
SummaryInternal(p, family, models, maxTokens, prompt, content) ==
    /\ p \in handlers
    /\ proc[p].pc = "idle"
    /\ obs' = [obs EXCEPT ![p] = idleObs]
    /\ proc' = [proc EXCEPT ![p] =
          [idleProc EXCEPT
              !.pc = "loop", !.entry = "summaryInternal", !.family = family,
              !.maxTokens = maxTokens, !.prompt = prompt, !.content = content,
              !.models = models]]
    /\ UNCHANGED <<trackerVars, ret, apiKey, hasTracker, handlers, gateVars>>

\* Mutant of AllModelsFailed: the loop falls out with a nil error.
AllModelsFailedSilently(p) ==
    /\ p \in handlers
    /\ proc[p].pc = "loop"
    /\ proc[p].idx = Len(proc[p].models)
    /\ proc' = [proc EXCEPT ![p] = returns(@, "", Unspecified, "")]
    /\ UNCHANGED <<trackerVars, ret, apiKey, hasTracker, handlers, obs, gateVars>>

\* summaryInternal after its range loop: every candidate was tried.
AllModelsFailed(p) ==
    /\ p \in handlers
    /\ proc[p].pc = "loop"
    /\ proc[p].idx = Len(proc[p].models)
    /\ proc' = [proc EXCEPT ![p] =
          returns(@, "", Unspecified, "failed to generate summary with all models")]
    /\ UNCHANGED <<trackerVars, ret, apiKey, hasTracker, handlers, obs, gateVars>>

\* Mutant of UnsupportedModel: the unknown candidate is treated as one more
\* failed attempt, followed by the backoff and the next candidate.
UnsupportedModelFallsBack(p) ==
    /\ p \in handlers
    /\ proc[p].pc = "loop"
    /\ proc[p].idx < Len(proc[p].models)
    /\ proc[p].models[proc[p].idx + 1] \notin DOMAIN llmModelNames
    /\ proc' = [proc EXCEPT ![p] =
          [dropLocals(@) EXCEPT !.idx = @ + 1, !.pc = "failed", !.err = "unsupported model"]]
    /\ UNCHANGED <<trackerVars, ret, apiKey, hasTracker, handlers, obs, gateVars>>

\* summaryInternal: the next candidate has no entry in llmModelNames.
UnsupportedModel(p) ==
    /\ p \in handlers
    /\ proc[p].pc = "loop"
    /\ proc[p].idx < Len(proc[p].models)
    /\ proc[p].models[proc[p].idx + 1] \notin DOMAIN llmModelNames
    /\ proc' = [proc EXCEPT ![p] =
          returns([@ EXCEPT !.idx = @ + 1], "", Unspecified, "unsupported model")]
    /\ UNCHANGED <<trackerVars, ret, apiKey, hasTracker, handlers, obs, gateVars>>

\* tryGenerateSummary returned an error to summaryInternal.
attemptFails(q, err) == [dropLocals(q) EXCEPT !.pc = "failed", !.err = err]

\* summaryInternal starts the next candidate: tryGenerateSummary and
\* summaryByGemini up to the answer of the first CountTokens.
\* made: the client factory succeeds; counted: what CountTokens answers
\* (0 stands for its error). A backend call on a done ctx returns an error.
TryGenerateSummary(p, made, counted) ==
    /\ p \in handlers
    /\ proc[p].pc = "loop"
    /\ proc[p].idx < Len(proc[p].models)
    /\ LET model == proc[p].models[proc[p].idx + 1]
           q == [proc[p] EXCEPT !.idx = @ + 1, !.err = ""]
           o == [obs[p] EXCEPT !.attempted = Append(@, model), !.gen = 0, !.recorded = 0,
                               !.outcome = "running", !.before = records,
                               !.measured = "", !.truncated = FALSE, !.sent = "",
                               !.lastText = "", !.lastSize = 0, !.budgeted = -1]
           text == contentWithPrompt(q.prompt, q.content)
       IN  /\ model \in DOMAIN llmModelNames
           /\ q.cancelled => counted = 0
           /\ IF q.family # Gemini
              THEN /\ proc' = [proc EXCEPT ![p] = attemptFails(q, "unsupported model family")]
                   /\ obs' = [obs EXCEPT ![p] = ended(o, proc'[p])]
              ELSE IF apiKey = ""
              THEN /\ proc' = [proc EXCEPT ![p] = attemptFails(q, "gemini-api-key is empty")]
                   /\ obs' = [obs EXCEPT ![p] = ended(o, proc'[p])]
              ELSE IF ~made
              THEN /\ proc' = [proc EXCEPT ![p] =
                         attemptFails(q, "failed to create Gemini client")]
                   /\ obs' = [obs EXCEPT ![p] = ended(o, proc'[p])]
              ELSE /\ proc' = [proc EXCEPT ![p] =
                         IF counted = 0
                         THEN attemptFails(q, "failed to count tokens")
                         ELSE [q EXCEPT !.pc = "counted", !.text = text, !.count = counted]]
                   /\ obs' = [obs EXCEPT ![p] =
                         ended([o EXCEPT !.contact = model, !.measured = text,
                                     !.lastText = text, !.lastSize = counted],
                               proc'[p])]
    /\ UNCHANGED <<trackerVars, ret, apiKey, hasTracker, handlers, gateVars>>

\* One iteration of: for respToken.TotalTokens > maxTokens { truncate; CountTokens }
\* (counted = 0 stands for the error of CountTokens).
Truncate(p, counted) ==
    /\ p \in handlers
    /\ proc[p].pc = "counted"
    /\ proc[p].count > proc[p].maxTokens
    /\ proc[p].cancelled => counted = 0
    /\ LET text == truncate(proc[p].text)
       IN  proc' = [proc EXCEPT ![p] =
                 IF counted = 0
                 THEN attemptFails(@, "failed to count tokens")
                 ELSE [@ EXCEPT !.text = text, !.count = counted]]
    /\ obs' = [obs EXCEPT ![p] =
          ended([@ EXCEPT !.contact = proc[p].models[proc[p].idx], !.truncated = TRUE,
                          !.lastText = truncate(proc[p].text), !.lastSize = counted],
                proc'[p])]
    /\ UNCHANGED <<trackerVars, ret, apiKey, hasTracker, handlers, gateVars>>

\* Mutant of CheckBudget: the message of CheckLimit is dropped.
CheckBudgetIgnoresViolation(p) ==
    /\ p \in handlers
    /\ proc[p].pc = "counted"
    /\ ~(proc[p].count > proc[p].maxTokens)
    /\ records' = IF hasTracker THEN checkLimitRecords(records, limit, now) ELSE records
    /\ proc' = [proc EXCEPT ![p].pc = "checked"]
    /\ obs' = [obs EXCEPT ![p].budgeted = IF hasTracker THEN proc[p].count ELSE @]
    /\ UNCHANGED <<limit, now, appended, ret, apiKey, hasTracker, handlers, gateVars>>

\* if s.tracker != nil { if msg := s.tracker.CheckLimit(respToken.TotalTokens) ...
CheckBudget(p) ==
    /\ p \in handlers
    /\ proc[p].pc = "counted"
    /\ ~(proc[p].count > proc[p].maxTokens)
    /\ IF hasTracker
       THEN /\ records' = checkLimitRecords(records, limit, now)
            /\ proc' = [proc EXCEPT ![p].pc =
                  IF checkLimitMsg(records, proc[p].count, limit, now) # ""
                  THEN "violation" ELSE "checked"]
       ELSE /\ records' = records
            /\ proc' = [proc EXCEPT ![p].pc = "checked"]
    /\ obs' = [obs EXCEPT ![p].budgeted = IF hasTracker THEN proc[p].count ELSE @]
    /\ UNCHANGED <<limit, now, appended, ret, apiKey, hasTracker, handlers, gateVars>>

\* Mutant of BudgetExceeded: generation is invoked before the error returns.
BudgetExceededAfterGenerate(p) ==
    /\ p \in handlers
    /\ proc[p].pc = "violation"
    /\ records' = prune(records, now)
    /\ proc' = [proc EXCEPT ![p] = attemptFails(@, LimitExceededMsg)]
    /\ obs' = [obs EXCEPT ![p] =
          ended([@ EXCEPT !.gen = @ + 1, !.genCalls = @ + 1], proc'[p])]
    /\ UNCHANGED <<limit, now, appended, ret, apiKey, hasTracker, handlers, gateVars>>

\* The ResourceExhausted error is built with s.tracker.CurrentUsage().
BudgetExceeded(p) ==
    /\ p \in handlers
    /\ proc[p].pc = "violation"
    /\ records' = prune(records, now)
    /\ proc' = [proc EXCEPT ![p] = attemptFails(@, LimitExceededMsg)]
    /\ obs' = [obs EXCEPT ![p] = ended(@, proc'[p])]
    /\ UNCHANGED <<limit, now, appended, ret, apiKey, hasTracker, handlers, gateVars>>

\* Mutant of attemptReturns: a non-empty summary does not end the loop.
attemptReturnsKeepsTrying(q, summary) == [dropLocals(q) EXCEPT !.pc = "loop"]

\* summaryInternal got a summary from tryGenerateSummary with a nil error.
attemptReturns(q, summary) ==
    IF summary # ""
    THEN returns(q, summary, q.models[q.idx], "")
    ELSE [dropLocals(q) EXCEPT !.pc = "loop"]

\* Mutant of totalTokens: the usage metadata of the response is ignored.
totalTokensMeasuredOnly(count, resp) == count

\* totalTokens of summaryByGemini: the reported total, else the measured size.
totalTokens(count, resp) == IF resp.hasUsage THEN resp.total ELSE count

\* Mutant of GenerateContent: usage is recorded before the response is
\* validated, so an invalid response leaves a record behind.
GenerateContentRecordsEarly(p, resp) ==
    /\ p \in handlers
    /\ proc[p].pc = "checked"
    /\ resp.kind = "ok" /\ hasTracker => Len(appended) < MaxRecords
    /\ proc[p].cancelled => resp.kind = "error"
    /\ proc' = [proc EXCEPT ![p] =
          CASE resp.kind = "error" -> attemptFails(@, "failed to generate content")
            [] resp.kind \in {"nocandidates", "nilcontent"} ->
                   attemptFails(@, "no content generated")
            [] resp.kind = "noparts" -> attemptFails(@, "no content parts generated")
            [] OTHER -> IF hasTracker
                        THEN [@ EXCEPT !.pc = "generated", !.resp = resp]
                        ELSE attemptReturns(@, resp.text)]
    /\ obs' = [obs EXCEPT ![p] =
          ended([@ EXCEPT !.contact = proc[p].models[proc[p].idx], !.gen = @ + 1,
                          !.genCalls = @ + 1, !.sent = proc[p].text,
                          !.genErrs = IF resp.kind = "error" THEN @ + 1 ELSE @,
                          !.out = IF resp.kind = "ok" THEN resp.text ELSE @],
                proc'[p])]
    /\ LET early == hasTracker /\ resp.kind \in {"nocandidates", "nilcontent", "noparts"}
           r == tokenRecord(now, totalTokens(proc[p].count, resp))
       IN  /\ records' = IF early THEN Append(records, r) ELSE records
           /\ appended' = IF early THEN Append(appended, r) ELSE appended
    /\ UNCHANGED <<limit, now, ret, apiKey, hasTracker, handlers, gateVars>>

\* Mutant of GenerateContent: a valid response with empty text is handed back
\* without recording its usage.
GenerateContentSkipsEmptyText(p, resp) ==
    /\ p \in handlers
    /\ proc[p].pc = "checked"
    /\ resp.kind = "ok" /\ hasTracker => Len(appended) < MaxRecords
    /\ proc[p].cancelled => resp.kind = "error"
    /\ proc' = [proc EXCEPT ![p] =
          CASE resp.kind = "error" -> attemptFails(@, "failed to generate content")
            [] resp.kind \in {"nocandidates", "nilcontent"} ->
                   attemptFails(@, "no content generated")
            [] resp.kind = "noparts" -> attemptFails(@, "no content parts generated")
            [] OTHER -> IF hasTracker /\ resp.text # ""
                        THEN [@ EXCEPT !.pc = "generated", !.resp = resp]
                        ELSE attemptReturns(@, resp.text)]
    /\ obs' = [obs EXCEPT ![p] =
          ended([@ EXCEPT !.contact = proc[p].models[proc[p].idx], !.gen = @ + 1,
                          !.genCalls = @ + 1, !.sent = proc[p].text,
                          !.genErrs = IF resp.kind = "error" THEN @ + 1 ELSE @,
                          !.out = IF resp.kind = "ok" THEN resp.text ELSE @],
                proc'[p])]
    /\ UNCHANGED <<trackerVars, ret, apiKey, hasTracker, handlers, gateVars>>

\* client.GenerateContent and the validation of its response.
GenerateContent(p, resp) ==
    /\ p \in handlers
    /\ proc[p].pc = "checked"
    /\ resp.kind = "ok" /\ hasTracker => Len(appended) < MaxRecords
    /\ proc[p].cancelled => resp.kind = "error"
    /\ proc' = [proc EXCEPT ![p] =
          CASE resp.kind = "error" -> attemptFails(@, "failed to generate content")
            [] resp.kind \in {"nocandidates", "nilcontent"} ->
                   attemptFails(@, "no content generated")
            [] resp.kind = "noparts" -> attemptFails(@, "no content parts generated")
            [] OTHER -> IF hasTracker
                        THEN [@ EXCEPT !.pc = "generated", !.resp = resp]
                        ELSE attemptReturns(@, resp.text)]
    /\ obs' = [obs EXCEPT ![p] =
          ended([@ EXCEPT !.contact = proc[p].models[proc[p].idx], !.gen = @ + 1,
                          !.genCalls = @ + 1, !.sent = proc[p].text,
                          !.genErrs = IF resp.kind = "error" THEN @ + 1 ELSE @,
                          !.out = IF resp.kind = "ok" THEN resp.text ELSE @],
                proc'[p])]
    /\ UNCHANGED <<trackerVars, ret, apiKey, hasTracker, handlers, gateVars>>

\* s.tracker.Record(totalTokens)
RecordUsage(p) ==
    /\ p \in handlers
    /\ proc[p].pc = "generated"
    /\ LET r == tokenRecord(now, totalTokens(proc[p].count, proc[p].resp))
       IN  /\ records' = Append(records, r)
           /\ appended' = Append(appended, r)
    /\ obs' = [obs EXCEPT ![p].recorded = @ + 1]
    /\ proc' = [proc EXCEPT ![p].pc = "recorded"]
    /\ UNCHANGED <<limit, now, ret, apiKey, hasTracker, handlers, gateVars>>

\* log.Infof(..., s.tracker.CurrentUsage(), ...) and the return of the text.
LogUsage(p) ==
    /\ p \in handlers
    /\ proc[p].pc = "recorded"
    /\ records' = prune(records, now)
    /\ proc' = [proc EXCEPT ![p] = attemptReturns(@, proc[p].resp.text)]
    /\ obs' = [obs EXCEPT ![p] = ended(@, proc'[p])]
    /\ UNCHANGED <<limit, now, appended, ret, apiKey, hasTracker, handlers, gateVars>>

\* summaryInternal on an attempt's error: log, time.Sleep(time.Second), continue.
Backoff(p) ==
    /\ p \in handlers
    /\ proc[p].pc = "failed"
    /\ obs' = [obs EXCEPT ![p].sleeps = @ + 1]
    /\ proc' = [proc EXCEPT ![p].pc = "loop"]
    /\ UNCHANGED <<trackerVars, ret, apiKey, hasTracker, handlers, gateVars>>

\* The caller cancels the request's ctx (or its deadline passes) while the
\* request is being served.
Cancel(p) ==
    /\ p \in handlers
    /\ proc[p].pc \notin {"idle", "done"}
    /\ ~proc[p].cancelled
    /\ proc' = [proc EXCEPT ![p].cancelled = TRUE]
    /\ UNCHANGED <<trackerVars, ret, apiKey, hasTracker, handlers, obs, gateVars>>

\* ---------------------------------------------------------- GRPCClients
\* The service names main configures.
Services == {"llm", "todo", "database"}

\* A grpc.ClientConn: state is "none" (not opened), "open" or "closed";
\* teardowns counts how often it was actually torn down.
noConn == [state |-> "none", teardowns |-> 0]

\* conn.Close(): tears an open connection down; on a closed one it returns
\* ErrClientConnClosing (which Close ignores) and changes nothing.
connClose(c) ==
    IF c.state = "open" THEN [state |-> "closed", teardowns |-> c.teardowns + 1] ELSE c

\* Mutant of closeAll: the connection of one service is left open.
closeAllButOne(cs, names) ==
    [s \in Services |->
        IF s \in names /\ s # (CHOOSE x \in names : TRUE) THEN connClose(cs[s]) ELSE cs[s]]

\* GRPCClients.Close: for _, service := range c.services { service.conn.Close() }
closeAll(cs, names) ==
    [s \in Services |-> IF s \in names THEN connClose(cs[s]) ELSE cs[s]]

\* Mutant of NewClient: a failure returns without clients.Close().
NewClientLeaksOnFailure(ok) ==
    /\ mainPc = "setup"
    /\ pool = "building"
    /\ todo # <<>>
    /\ IF ok
       THEN /\ conns' = [conns EXCEPT ![Head(todo)] = [state |-> "open", teardowns |-> 0]]
            /\ services' = services \cup {Head(todo)}
            /\ todo' = Tail(todo)
            /\ pool' = pool
       ELSE /\ conns' = conns
            /\ services' = services
            /\ todo' = <<>>
            /\ pool' = "nil"
    /\ UNCHANGED <<mainPc, closeCalls, ctxDone, pollers, waited, errChan, errors,
                   clockVars, llmVars>>

\* The caller invokes NewGRPCClients with the configs of todo (unique names).
\* One iteration of its range loop: grpc.NewClient succeeds or fails.
NewClient(ok) ==
    /\ mainPc = "setup"
    /\ pool = "building"
    /\ todo # <<>>
    /\ IF ok
       THEN /\ conns' = [conns EXCEPT ![Head(todo)] = [state |-> "open", teardowns |-> 0]]
            /\ services' = services \cup {Head(todo)}
            /\ todo' = Tail(todo)
            /\ pool' = pool
       ELSE /\ conns' = closeAll(conns, services)
            /\ services' = services
            /\ todo' = <<>>
            /\ pool' = "nil"
    /\ UNCHANGED <<mainPc, closeCalls, ctxDone, pollers, waited, errChan, errors,
                   clockVars, llmVars>>

\* NewGRPCClients: the range loop is over, return clients, nil.
NewGRPCClientsReturns ==
    /\ mainPc = "setup"
    /\ pool = "building"
    /\ todo = <<>>
    /\ pool' = "ready"
    /\ UNCHANGED <<mainPc, todo, conns, closeCalls, services, ctxDone, pollers, waited,
                   errChan, errors, clockVars, llmVars>>

\* GRPCClients.Close()
Close ==
    /\ pool = "ready"
    /\ closeCalls < MaxCloses
    /\ closeCalls' = closeCalls + 1
    /\ conns' = closeAll(conns, services)
    /\ UNCHANGED <<mainPc, pool, todo, services, ctxDone, pollers, waited, errChan,
                   errors, clockVars, llmVars>>

\* ------------------------------------------------------------------ main
\* main up to setupGRPCClients: config.AllowedUsers == "" is fatal.
MainStart(allowedUsers) ==
    /\ mainPc = "start"
    /\ mainPc' = IF allowedUsers = "" THEN "fatal" ELSE "setup"
    /\ UNCHANGED <<pool, todo, conns, closeCalls, services, ctxDone, pollers, waited,
                   errChan, errors, clockVars, llmVars>>

\* main: setupGRPCClients has returned; an error is fatal.
MainSetupDone ==
    /\ mainPc = "setup"
    /\ pool \in {"ready", "nil"}
    /\ mainPc' = IF pool = "nil" THEN "fatal" ELSE "wait"
    /\ UNCHANGED <<pool, todo, conns, closeCalls, services, ctxDone, pollers, waited,
                   errChan, errors, clockVars, llmVars>>

\* Mutant of MainAfterWait: the error of WaitForHealthy is only logged.
MainAfterWaitIgnoresError ==
    /\ mainPc = "wait"
    /\ waited \notin {"none", "running"}
    /\ mainPc' = "ready"
    /\ UNCHANGED <<pool, todo, conns, closeCalls, services, ctxDone, pollers, waited,
                   errChan, errors, clockVars, llmVars>>

\* main: WaitForHealthy has returned; an error is fatal (log.Fatalf).
MainAfterWait ==
    /\ mainPc = "wait"
    /\ waited \notin {"none", "running"}
    /\ mainPc' = IF waited # "nil" THEN "fatal" ELSE "ready"
    /\ UNCHANGED <<pool, todo, conns, closeCalls, services, ctxDone, pollers, waited,
                   errChan, errors, clockVars, llmVars>>

\* main from the database set-up to app.Run: an empty database path and an
\* empty parsed user list are fatal; otherwise the HTTP server starts.
MainRun(dataBasePath, validUsers) ==
    /\ mainPc = "ready"
    /\ mainPc' = IF dataBasePath = "" \/ validUsers = 0 THEN "fatal" ELSE "serving"
    /\ UNCHANGED <<pool, todo, conns, closeCalls, services, ctxDone, pollers, waited,
                   errChan, errors, clockVars, llmVars>>

\* healthClient.Check: an error, or a response with one of the statuses.
CheckSet == {"error", "UNKNOWN", "SERVING", "NOT_SERVING"}

\* time.NewTicker(500 * time.Millisecond), in units of 100 ms.
TickerPeriod == 5
\* A ctx without deadline (context.Background()); a service never healthy.
NoDeadline == -1
Never == -1
\* The timeouts main may be configured with, and when a service turns healthy.
TimeoutSet == {TickerPeriod - 2, TickerPeriod, 2 * TickerPeriod + 2}
HealthySet == {0, TickerPeriod + 2, Never}

\* The deadline of ctx has passed.
expired == deadline # NoDeadline /\ elapsed >= deadline
\* ctx.Done() is closed exactly from the deadline on.
ctxCurrent == ctxDone <=> expired
\* What the health service of s answers at the current time.
healthy(s) == healthyFrom[s] # Never /\ elapsed >= healthyFrom[s]

\* pc: where the goroutine is ("idle", "select", "check", "done");
\* lastTick: the time of the latest tick of ticker.C it has received;
\* probes: Check calls issued so far; late: the Check in flight was issued
\* after ctx was done; sent: what the goroutine put on errChan;
\* served: a Check issued before ctx was done answered SERVING;
\* bad: a Check answered an error or a status other than SERVING.
idlePoller ==
    [pc |-> "idle", probes |-> 0, late |-> FALSE, sent |-> "none",
     served |-> FALSE, bad |-> FALSE, lastTick |-> 0]

\* WaitForHealthy up to the end of its range loop: one goroutine per service.
WaitForHealthy ==
    /\ mainPc = "wait"
    /\ pool = "ready"
    /\ waited = "none"
    /\ waited' = "running"
    /\ pollers' = [s \in Services |->
                     IF s \in services THEN [idlePoller EXCEPT !.pc = "select"]
                     ELSE idlePoller]
    /\ UNCHANGED <<services, ctxDone, errChan, errors, clockVars, mainVars, llmVars>>

\* Time passes while WaitForHealthy runs.
Advance ==
    /\ waited = "running"
    /\ ctxCurrent
    /\ elapsed < MaxElapsed
    /\ elapsed' = elapsed + 1
    /\ UNCHANGED <<services, ctxDone, pollers, waited, errChan, errors,
                   deadline, timeout, healthyFrom, mainVars, llmVars>>

\* The deadline of ctx passes (context.WithTimeout in main).
Deadline ==
    /\ waited = "running"
    /\ ~ctxDone
    /\ expired
    /\ ctxDone' = TRUE
    /\ UNCHANGED <<services, pollers, waited, errChan, errors, clockVars, mainVars, llmVars>>

\* Mutant of TickerFires: the ticker also fires when it is created, so the
\* first Check is issued at once.
TickerFiresAtStart(s) ==
    /\ pollers[s].pc = "select"
    /\ pollers[s].probes < MaxProbes
    /\ ctxCurrent
    /\ \/ (elapsed \div TickerPeriod) * TickerPeriod > pollers[s].lastTick
       \/ pollers[s].probes = 0
    /\ pollers' = [pollers EXCEPT ![s] =
          [@ EXCEPT !.pc = "check", !.probes = @ + 1, !.late = ctxDone,
                    !.lastTick = (elapsed \div TickerPeriod) * TickerPeriod]]
    /\ UNCHANGED <<services, ctxDone, waited, errChan, errors, clockVars, mainVars, llmVars>>

\* select picks case <-ticker.C: the goroutine issues healthClient.Check.
TickerFires(s) ==
    /\ pollers[s].pc = "select"
    /\ pollers[s].probes < MaxProbes
    /\ ctxCurrent
    /\ (elapsed \div TickerPeriod) * TickerPeriod > pollers[s].lastTick
    /\ pollers' = [pollers EXCEPT ![s] =
          [@ EXCEPT !.pc = "check", !.probes = @ + 1, !.late = ctxDone,
                    !.lastTick = (elapsed \div TickerPeriod) * TickerPeriod]]
    /\ UNCHANGED <<services, ctxDone, waited, errChan, errors, clockVars, mainVars, llmVars>>

\* Mutant of CheckReturns: an error of Check fails the service at once.
CheckReturnsFailsOnError(s, answer) ==
    /\ pollers[s].pc = "check"
    /\ ctxCurrent
    /\ pollers[s].late => answer = "error"
    /\ answer = "SERVING" => healthy(s)
    /\ answer \in {"UNKNOWN", "NOT_SERVING"} => ~healthy(s)
    /\ (answer = "error" /\ healthy(s)) => ctxDone
    /\ pollers' = [pollers EXCEPT ![s] =
          CASE answer = "error" -> [@ EXCEPT !.pc = "done", !.sent = "timeout", !.bad = TRUE]
            [] answer = "SERVING" ->
                   [@ EXCEPT !.pc = "done", !.sent = "nil", !.served = ~pollers[s].late]
            [] OTHER -> [@ EXCEPT !.pc = "select", !.bad = TRUE]]
    /\ errChan' = CASE answer = "SERVING" -> Append(errChan, "nil")
                     [] answer = "error" -> Append(errChan, s)
                     [] OTHER -> errChan
    /\ UNCHANGED <<services, ctxDone, waited, errors, clockVars, mainVars, llmVars>>

\* healthClient.Check returns: SERVING from a healthy service, another status
\* or an error from one that is not; a Check issued on a done ctx, or cut
\* off by the deadline, returns an error.
CheckReturns(s, answer) ==
    /\ pollers[s].pc = "check"
    /\ ctxCurrent
    /\ pollers[s].late => answer = "error"
    /\ answer = "SERVING" => healthy(s)
    /\ answer \in {"UNKNOWN", "NOT_SERVING"} => ~healthy(s)
    /\ (answer = "error" /\ healthy(s)) => ctxDone
    /\ pollers' = [pollers EXCEPT ![s] =
          CASE answer = "error" -> [@ EXCEPT !.pc = "select", !.bad = TRUE]
            [] answer = "SERVING" ->
                   [@ EXCEPT !.pc = "done", !.sent = "nil", !.served = ~pollers[s].late]
            [] OTHER -> [@ EXCEPT !.pc = "select", !.bad = TRUE]]
    /\ errChan' = IF answer = "SERVING" THEN Append(errChan, "nil") ELSE errChan
    /\ UNCHANGED <<services, ctxDone, waited, errors, clockVars, mainVars, llmVars>>

\* Mutant of CtxDone: the goroutine sends the timeout error and goes on
\* selecting instead of returning.
CtxDoneKeepsPolling(s) ==
    /\ pollers[s].pc = "select"
    /\ ctxDone
    /\ pollers' = [pollers EXCEPT ![s] = [@ EXCEPT !.sent = "timeout"]]
    /\ errChan' = Append(errChan, s)
    /\ UNCHANGED <<services, ctxDone, waited, errors, clockVars, mainVars, llmVars>>

\* select picks case <-ctx.Done(): errChan <- "health check timeout for name".
CtxDone(s) ==
    /\ pollers[s].pc = "select"
    /\ ctxDone
    /\ pollers' = [pollers EXCEPT ![s] = [@ EXCEPT !.pc = "done", !.sent = "timeout"]]
    /\ errChan' = Append(errChan, s)
    /\ UNCHANGED <<services, ctxDone, waited, errors, clockVars, mainVars, llmVars>>

\* Mutant of WaitReturns: the first value on errChan ends the wait.
WaitReturnsEarly ==
    /\ waited = "running"
    /\ errChan # <<>> \/ services = {}
    /\ LET errs == SelectSeq(errChan, LAMBDA e : e # "nil")
       IN  /\ errors' = errs
           /\ waited' = IF Len(errs) > 0 THEN "health check failed" ELSE "nil"
    /\ errChan' = <<>>
    /\ UNCHANGED <<services, ctxDone, pollers, clockVars, mainVars, llmVars>>

\* Mutant of WaitReturns: only the first error received is reported.
WaitReturnsFirstError ==
    /\ waited = "running"
    /\ \A s \in services : pollers[s].pc = "done"
    /\ LET errs == SelectSeq(errChan, LAMBDA e : e # "nil")
       IN  /\ errors' = IF errs = <<>> THEN <<>> ELSE <<errs[1]>>
           /\ waited' = IF Len(errs) > 0 THEN "health check failed" ELSE "nil"
    /\ errChan' = <<>>
    /\ UNCHANGED <<services, ctxDone, pollers, clockVars, mainVars, llmVars>>

\* wg.Wait() is over and errChan is closed; the range loop has drained it,
\* keeping the non-nil errors: WaitForHealthy returns.
WaitReturns ==
    /\ waited = "running"
    /\ \A s \in services : pollers[s].pc = "done"
    /\ LET errs == SelectSeq(errChan, LAMBDA e : e # "nil")
       IN  /\ errors' = errs
           /\ waited' = IF Len(errs) > 0 THEN "health check failed" ELSE "nil"
    /\ errChan' = <<>>
    /\ UNCHANGED <<services, ctxDone, pollers, clockVars, mainVars, llmVars>>

\* ---------------------------------------------------- RateLimitMiddleware
\* if requestsCount >= 2
RequestLimit == 2

\* 1 * time.Minute on the scale of wall.
Minute == 2

\* The router without the middleware: nothing of it takes part.
NoRate ==
    /\ requestsCount = 0
    /\ resetTime = 0
    /\ wall = 0
    /\ requests = <<>>

\* RateLimitMiddleware(): requestsCount := 0; resetTime := now + 1 minute.
RateLimitMiddleware ==
    /\ requestsCount = 0
    /\ resetTime = Minute
    /\ wall = 0
    /\ requests = <<>>

\* The request is let through: the negation of `if requestsCount >= 2`.
admits(count) == ~(count >= RequestLimit)

\* The handler function the middleware returns, run for one request under mu:
\* window reset, limit test, then 503 and Abort, or the increment and Next.
RateLimitHandler ==
    /\ Len(requests) < MaxRequests
    /\ LET windowOver == wall > resetTime
           count == IF windowOver THEN 0 ELSE requestsCount
       IN  /\ resetTime' = IF windowOver THEN wall + Minute ELSE resetTime
           /\ IF admits(count)
              THEN /\ requestsCount' = count + 1
                   /\ requests' = Append(requests,
                          [at |-> wall, status |-> 200, next |-> TRUE])
              ELSE /\ requestsCount' = count
                   /\ requests' = Append(requests,
                          [at |-> wall, status |-> 503, next |-> FALSE])
    /\ UNCHANGED <<wall, services, ctxDone, pollers, waited, errChan, errors,
                   clockVars, mainVars, records, limit, now, appended, ret,
                   apiKey, hasTracker, handlers, proc, obs>>

\* time.Now() moves on by half a minute.
RateTick ==
    /\ wall < MaxRateTime
    /\ wall' = wall + 1
    /\ UNCHANGED <<requestsCount, resetTime, requests, services, ctxDone, pollers,
                   waited, errChan, errors, clockVars, mainVars, records, limit,
                   now, appended, ret, apiKey, hasTracker, handlers, proc, obs>>



\* ------------------------------------------------------- specifications
\* No pool and no WaitForHealthy call: the state of the LLM service alone.
NoGate ==
    /\ services = {}
    /\ ctxDone = FALSE
    /\ pollers = [s \in Services |-> idlePoller]
    /\ waited = "none"
    /\ errChan = <<>>
    /\ errors = <<>>
    /\ elapsed = 0
    /\ deadline = NoDeadline
    /\ timeout = 0
    /\ healthyFrom = [s \in Services |-> Never]
    /\ mainPc = "none"
    /\ pool = "nil"
    /\ todo = <<>>
    /\ conns = [s \in Services |-> noConn]
    /\ closeCalls = 0

TrackerInit ==
    /\ NoRate
    /\ records = <<>>
    /\ limit \in LimitSet
    /\ now = 0
    /\ appended = <<>>
    /\ ret = [op |-> "none", tokens |-> 0, usage |-> 0, msg |-> "", at |-> 0]
    /\ apiKey = ""
    /\ hasTracker = TRUE
    /\ handlers = {}
    /\ proc = [p \in Handlers |-> idleProc]
    /\ obs = [p \in Handlers |-> idleObs]
    /\ NoGate

TrackerNext ==
    \/ \E c \in CostSet : Record(c)
    \/ CurrentUsage
    \/ \E c \in CostSet : CheckLimit(c)
    \/ Tick

ServerInit(hs) ==
    /\ NoRate
    /\ records = <<>>
    /\ limit \in {0, MaxCost + 1}
    /\ now = 0
    /\ appended = <<>>
    /\ ret = [op |-> "none", tokens |-> 0, usage |-> 0, msg |-> "", at |-> 0]
    /\ apiKey \in {"", "test-api-key"}
    /\ hasTracker \in BOOLEAN
    /\ handlers = hs
    /\ proc = [p \in Handlers |-> idleProc]
    /\ obs = [p \in Handlers |-> idleObs]
    /\ NoGate

ServerNext ==
    \/ \E p \in Handlers, f \in FamilySet, m \in ModelSet, mt \in MaxTokensSet,
          pr \in PromptSet, c \in TextSet : Summarize(p, f, m, mt, pr, c)
    \/ \E p \in Handlers, f \in FamilySet, ms \in DirectModels, mt \in MaxTokensSet,
          pr \in PromptSet, c \in TextSet : SummaryInternal(p, f, ms, mt, pr, c)
    \/ \E p \in Handlers : AllModelsFailed(p)
    \/ \E p \in Handlers : UnsupportedModel(p)
    \/ \E p \in Handlers, made \in BOOLEAN, n \in {0} \cup CountSet :
          TryGenerateSummary(p, made, n)
    \/ \E p \in Handlers, n \in {0} \cup CountSet : Truncate(p, n)
    \/ \E p \in Handlers : CheckBudget(p)
    \/ \E p \in Handlers : BudgetExceeded(p)
    \/ \E p \in Handlers, r \in GenerateSet : GenerateContent(p, r)
    \/ \E p \in Handlers : RecordUsage(p)
    \/ \E p \in Handlers : LogUsage(p)
    \/ \E p \in Handlers : Backoff(p)
    \/ \E p \in Handlers : Cancel(p)
    \/ Tick

vars == <<records, limit, now, appended, ret, apiKey, hasTracker, handlers, proc, obs,
          services, ctxDone, pollers, waited, errChan, errors,
          elapsed, deadline, timeout, healthyFrom,
          mainPc, pool, todo, conns, closeCalls,
          requestsCount, resetTime, wall, requests>>

\* The TokenTracker alone, driven through its three methods and the clock.
SpecTracker == TrackerInit /\ [][TrackerNext]_vars

\* The TokenTracker with an injected time source that returns arbitrary times.
TrackerAnyClockNext ==
    \/ \E c \in CostSet : Record(c)
    \/ CurrentUsage
    \/ \E c \in CostSet : CheckLimit(c)
    \/ \E t \in 0..MaxTime : SetTimeFunc(t)

SpecTrackerAnyClock == TrackerInit /\ [][TrackerAnyClockNext]_vars

\* One handler at a time: requests are served one after the other.
Spec == ServerInit({"h1"}) /\ [][ServerNext]_vars

\* Two requests for one named model, served concurrently on one tracker with
\* a credential configured.
ConcurrentInit ==
    /\ ServerInit(Handlers)
    /\ apiKey # ""
    /\ hasTracker

ConcurrentNext ==
    \/ \E p \in Handlers, pr \in PromptSet, c \in TextSet :
          Summarize(p, Gemini, "MODEL_GEMINI_2_5_FLASH", 0, pr, c)
    \/ \E p \in Handlers : AllModelsFailed(p)
    \/ \E p \in Handlers, made \in BOOLEAN, n \in {0} \cup CountSet :
          TryGenerateSummary(p, made, n)
    \/ \E p \in Handlers : CheckBudget(p)
    \/ \E p \in Handlers : BudgetExceeded(p)
    \/ \E p \in Handlers, r \in GenerateSet : GenerateContent(p, r)
    \/ \E p \in Handlers : RecordUsage(p)
    \/ \E p \in Handlers : LogUsage(p)
    \/ \E p \in Handlers : Backoff(p)
    \/ Tick

SpecConcurrent == ConcurrentInit /\ [][ConcurrentNext]_vars

\* The pool after NewGRPCClients, then one WaitForHealthy call.
GateInit ==
    /\ NoRate
    /\ services \in SUBSET Services
    /\ ctxDone = FALSE
    /\ pollers = [s \in Services |-> idlePoller]
    /\ waited = "none"
    /\ errChan = <<>>
    /\ errors = <<>>
    /\ elapsed = 0
    /\ timeout \in TimeoutSet
    /\ deadline \in {timeout, NoDeadline}
    /\ healthyFrom \in [Services -> HealthySet]
    /\ \A s \in Services \ services : healthyFrom[s] = Never
    /\ mainPc = "wait"
    /\ pool = "ready"
    /\ todo = <<>>
    /\ conns = [s \in Services |->
                  IF s \in services THEN [state |-> "open", teardowns |-> 0] ELSE noConn]
    /\ closeCalls = 0
    /\ records = <<>>
    /\ limit = 0
    /\ now = 0
    /\ appended = <<>>
    /\ ret = [op |-> "none", tokens |-> 0, usage |-> 0, msg |-> "", at |-> 0]
    /\ apiKey = ""
    /\ hasTracker = FALSE
    /\ handlers = {}
    /\ proc = [p \in Handlers |-> idleProc]
    /\ obs = [p \in Handlers |-> idleObs]

GateNext ==
    \/ WaitForHealthy
    \/ Advance
    \/ Deadline
    \/ \E s \in Services : TickerFires(s)
    \/ \E s \in Services, a \in CheckSet : CheckReturns(s, a)
    \/ \E s \in Services : CtxDone(s)
    \/ WaitReturns

SpecGate == GateInit /\ [][GateNext]_vars

\* The llm service idle: nothing of it takes part in the pool and main specs.
NoLLM ==
    /\ records = <<>>
    /\ limit = 0
    /\ now = 0
    /\ appended = <<>>
    /\ ret = [op |-> "none", tokens |-> 0, usage |-> 0, msg |-> "", at |-> 0]
    /\ apiKey = ""
    /\ hasTracker = FALSE
    /\ handlers = {}
    /\ proc = [p \in Handlers |-> idleProc]
    /\ obs = [p \in Handlers |-> idleObs]

\* The gate before WaitForHealthy is called, with a ctx built from timeout.
GateIdle ==
    /\ ctxDone = FALSE
    /\ pollers = [s \in Services |-> idlePoller]
    /\ waited = "none"
    /\ errChan = <<>>
    /\ errors = <<>>
    /\ elapsed = 0
    /\ timeout \in TimeoutSet
    /\ deadline = timeout

\* Config lists with unique names: every ordering of every subset of Services.
ConfigLists ==
    {cfg \in UNION {[1..n -> Services] : n \in 0..Cardinality(Services)} :
        \A i, j \in 1..Len(cfg) : i # j => cfg[i] # cfg[j]}

\* A caller builds a pool with NewGRPCClients and closes it.
PoolInit ==
    /\ NoRate
    /\ NoLLM
    /\ GateIdle
    /\ healthyFrom = [s \in Services |-> Never]
    /\ mainPc = "setup"
    /\ pool = "building"
    /\ todo \in ConfigLists
    /\ services = {}
    /\ conns = [s \in Services |-> noConn]
    /\ closeCalls = 0

PoolNext ==
    \/ \E ok \in BOOLEAN : NewClient(ok)
    \/ NewGRPCClientsReturns
    \/ Close

SpecPool == PoolInit /\ [][PoolNext]_vars

\* main of the gateway, from its first statement, with its three services.
MainInit ==
    /\ NoRate
    /\ NoLLM
    /\ GateIdle
    /\ healthyFrom \in [Services -> HealthySet]
    /\ mainPc = "start"
    /\ pool = "building"
    /\ todo = <<"llm", "todo", "database">>
    /\ services = {}
    /\ conns = [s \in Services |-> noConn]
    /\ closeCalls = 0

MainNext ==
    \/ \E u \in {"", "user:pw"} : MainStart(u)
    \/ \E ok \in BOOLEAN : NewClient(ok)
    \/ NewGRPCClientsReturns
    \/ MainSetupDone
    \/ WaitForHealthy
    \/ Advance
    \/ Deadline
    \/ \E s \in Services : TickerFires(s)
    \/ \E s \in Services, a \in CheckSet : CheckReturns(s, a)
    \/ \E s \in Services : CtxDone(s)
    \/ WaitReturns
    \/ MainAfterWait
    \/ \E path \in {"", "/data/todofy.db"}, n \in {0, 1} : MainRun(path, n)

SpecMain == MainInit /\ [][MainNext]_vars

\* The gateway's router with the rate limiter installed, serving requests.
RateInit ==
    /\ NoLLM
    /\ NoGate
    /\ RateLimitMiddleware

RateNext ==
    \/ RateLimitHandler
    \/ RateTick

SpecRate == RateInit /\ [][RateNext]_vars

\* ------------------------------------------------- reference arithmetic
\* The mathematical (unbounded) sum of non-negative costs, kept inside the
\* range the checker can evaluate: over is TRUE when the sum is 2^31 or more.
RECURSIVE exactSum(_)
exactSum(recs) ==
    IF recs = <<>> THEN [over |-> FALSE, val |-> 0]
    ELSE LET rest == exactSum(SubSeq(recs, 1, Len(recs) - 1))
             c == recs[Len(recs)].tokens
         IN  IF rest.over \/ c > MaxInt32 - rest.val
             THEN [over |-> TRUE, val |-> 0]
             ELSE [over |-> FALSE, val |-> rest.val + c]

\* The records whose timestamp is not older than t - Window.
inWindow(recs, t) == SelectSeq(recs, LAMBDA r : r.timestamp >= t - Window)

\* sum(recs) + c > lim on unbounded integers, for lim an int32 and c >= 0.
exceeds(recs, c, lim) ==
    LET s == exactSum(recs)
    IN  s.over \/ c > lim - s.val

\* ------------------------------------------------------------------ C3
\* C3: currentUsage() queried at time now returns exactly the sum of the
\* costs of the records whose timestamp is not older than now - window.
C3_UsageIsWindowSum ==
    ret.op = "CurrentUsage" =>
        LET s == exactSum(inWindow(appended, ret.at))
        IN  ~s.over /\ ret.usage = s.val

\* C3 restricted to histories whose in-window sum is below 2^31.
C3_UsageIsWindowSumBelow2p31 ==
    ret.op = "CurrentUsage" =>
        LET s == exactSum(inWindow(appended, ret.at))
        IN  ~s.over => ret.usage = s.val

\* ------------------------------------------------------------------ C4
\* C4: with ceiling > 0, checkLimit(c) reports no violation exactly when
\* (sum of in-window costs) + c <= ceiling.
C4_CheckLimitInclusive ==
    (ret.op = "CheckLimit" /\ limit > 0) =>
        ((ret.msg = "") <=> ~exceeds(inWindow(appended, ret.at), ret.tokens, limit))

\* C4 restricted to sum + c below 2^31.
C4_CheckLimitInclusiveBelow2p31 ==
    (ret.op = "CheckLimit" /\ limit > 0
       /\ ~exactSum(Append(inWindow(appended, ret.at),
                           tokenRecord(ret.at, ret.tokens))).over) =>
        ((ret.msg = "") <=> ~exceeds(inWindow(appended, ret.at), ret.tokens, limit))

\* ------------------------------------------------------------------ C5
\* C5: with ceiling <= 0 checkLimit passes for every cost and history, record
\* still appends, and currentUsage() still returns the in-window sum.
C5_DisabledLimitStillTracks ==
    limit <= 0 =>
        /\ ret.op = "CheckLimit" => ret.msg = ""
        /\ ret.op = "Record" =>
              /\ records # <<>>
              /\ records[Len(records)] = tokenRecord(ret.at, ret.tokens)
        /\ ret.op = "CurrentUsage" =>
              LET s == exactSum(inWindow(appended, ret.at))
              IN  ~s.over /\ ret.usage = s.val

\* C5 restricted to histories whose in-window sum is below 2^31.
C5_DisabledLimitStillTracksBelow2p31 ==
    limit <= 0 =>
        /\ ret.op = "CheckLimit" => ret.msg = ""
        /\ ret.op = "Record" =>
              /\ records # <<>>
              /\ records[Len(records)] = tokenRecord(ret.at, ret.tokens)
        /\ ret.op = "CurrentUsage" =>
              LET s == exactSum(inWindow(appended, ret.at))
              IN  ~s.over => ret.usage = s.val

\* --------------------------------------------------------------- helpers
\* a is what is left of b after dropping some leading elements.
IsSuffix(a, b) ==
    /\ Len(a) <= Len(b)
    /\ a = SubSeq(b, Len(b) - Len(a) + 1, Len(b))

Elems(seq) == {seq[i] : i \in 1..Len(seq)}

NoDuplicates(seq) == \A i, j \in 1..Len(seq) : i # j => seq[i] # seq[j]

\* The candidate list the request resolves to, read off the request itself.
candidatesOf(q) == IF q.reqModel # Unspecified THEN <<q.reqModel>> ELSE llmModelPriority

AggregateErr == "failed to generate summary with all models"

\* ------------------------------------------------------------------ C1
\* C1: with a positive ceiling, in every state reachable by Summarize requests
\* against one tracker, the sum of the costs of the records inside the window
\* never exceeds the ceiling.
C1_WindowSumWithinCeiling ==
    (hasTracker /\ limit > 0) => ~exceeds(inWindow(records, now), 0, limit)

\* ------------------------------------------------------------------ C2
\* C2: two concurrent attempts never both pass the budget check and both
\* invoke generate when the current in-window usage plus both of their
\* measured costs exceeds the ceiling.
C2_NoStaleBudgetPass ==
    \A p, q \in handlers :
        (p # q /\ hasTracker /\ limit > 0
           /\ proc[p].pc = "generated" /\ proc[q].pc = "generated") =>
            ~exceeds(inWindow(records, now), proc[p].count + proc[q].count, limit)

\* ------------------------------------------------------------------ C6
\* C6 as stated: an attempt that ends in any failure leaves the tracker's
\* record sequence unchanged.
C6_FailedAttemptLeavesRecords ==
    \A p \in handlers : proc[p].pc = "failed" => records = obs[p].before

\* C6 as amended: an attempt that ends in any failure has appended no record
\* and leaves currentUsage() unchanged; the only change it makes to the record
\* sequence is the pruning of expired records. A record is appended only
\* after the attempt's GenerateContent returned a valid response.
C6_FailedAttemptAppendsNothing ==
    \A p \in handlers :
        /\ proc[p].pc = "failed" =>
              /\ obs[p].recorded = 0
              /\ IsSuffix(records, obs[p].before)
              /\ inWindow(records, now) = inWindow(obs[p].before, now)
              /\ total32(prune(records, now)) = total32(prune(obs[p].before, now))
        /\ obs[p].recorded > 0 =>
              /\ obs[p].recorded = 1
              /\ obs[p].gen = 1
              /\ obs[p].outcome \in {"running", "empty", "ok"}

\* A generate call failed after checkLimit had pruned an expired record.
C6_Witness ==
    \E p \in handlers :
        /\ proc[p].pc = "failed"
        /\ obs[p].gen = 1
        /\ Len(records) < Len(obs[p].before)

\* ------------------------------------------------------------------ C7
\* C7: within one Summarize call the models attempted are a prefix of the
\* resolved candidate list ([requestedModel] when a model is given, otherwise
\* the preference order), attempted in list order, one at a time, each only
\* after the previous attempt returned a failure or empty output, none twice.
C7_CandidatesInOrder ==
    /\ [](\A p \in handlers :
            proc[p].entry = "Summarize" =>
                LET cands == candidatesOf(proc[p])
                    done == obs[p].attempted
                IN  /\ Len(done) <= Len(cands)
                    /\ done = SubSeq(cands, 1, Len(done))
                    /\ NoDuplicates(done)
                    /\ proc[p].pc \in {"counted", "violation", "checked", "generated",
                                       "recorded"} =>
                          /\ obs[p].outcome = "running"
                          /\ proc[p].models[proc[p].idx] = done[Len(done)])
    /\ [][\A p \in handlers :
            (proc'[p].entry = "Summarize" /\ obs'[p].attempted # obs[p].attempted) =>
                /\ obs[p].outcome \in {"none", "failed", "empty"}
                /\ Len(obs'[p].attempted) = Len(obs[p].attempted) + 1
                /\ obs'[p].attempted =
                      SubSeq(candidatesOf(proc'[p]), 1, Len(obs[p].attempted) + 1)]_vars

\* A Summarize call without a requested model is on its third candidate.
C7_Witness ==
    \E p \in handlers :
        /\ proc[p].entry = "Summarize"
        /\ proc[p].reqModel = Unspecified
        /\ Len(obs[p].attempted) = 3
        /\ obs[p].outcome = "running"

\* ------------------------------------------------------------------ C8
\* C8: as soon as an attempt returns non-empty output, Summarize returns that
\* output with the id of the model that produced it, and no candidate later
\* in the list is contacted.
C8_FirstNonEmptyReturned ==
    \A p \in handlers :
        /\ (obs[p].out # "" /\ proc[p].pc \notin {"generated", "recorded"}) =>
              /\ proc[p].pc = "done"
              /\ proc[p].err = ""
              /\ proc[p].summary = obs[p].out
              /\ proc[p].model = obs[p].contact
              /\ proc[p].model = obs[p].attempted[Len(obs[p].attempted)]
              /\ proc[p].model = proc[p].models[proc[p].idx]
              /\ Len(obs[p].attempted) = proc[p].idx
        /\ (proc[p].pc = "done" /\ proc[p].err = "") => obs[p].out # ""
        /\ obs[p].contact \in Elems(obs[p].attempted) \cup {Unspecified}

\* The second of five candidates produced the summary and Summarize returned.
C8_Witness ==
    \E p \in handlers :
        /\ proc[p].pc = "done"
        /\ proc[p].err = ""
        /\ proc[p].idx = 2
        /\ Len(proc[p].models) = 5

\* ------------------------------------------------------------------ C9
\* C9: if generation fails for every candidate, Summarize returns the
\* aggregate "failed with all models" error naming the attempted candidates,
\* no summary and the unspecified model id, and GenerateContent has been
\* invoked exactly once per candidate.
C9_AllGenerationsFail ==
    \A p \in handlers :
        /\ (proc[p].pc = "done" /\ Len(proc[p].models) > 0
              /\ obs[p].genErrs = Len(proc[p].models)) =>
              /\ proc[p].err = AggregateErr
              /\ proc[p].summary = ""
              /\ proc[p].model = Unspecified
              /\ obs[p].attempted = proc[p].models
              /\ obs[p].genCalls = Len(proc[p].models)
        /\ obs[p].gen <= 1
        /\ obs[p].genCalls <= Len(obs[p].attempted)

\* GenerateContent failed for each of the five candidates of the preference
\* order and the request has returned.
C9_Witness ==
    \E p \in handlers :
        /\ proc[p].pc = "done"
        /\ Len(proc[p].models) = 5
        /\ obs[p].genErrs = 5

\* ----------------------------------------------------------------- C10
\* C10: a candidate with no entry in llmModelNames aborts the whole operation
\* at once with an unsupported-model error: no backend call is made for it, no
\* backoff is waited for it, and no later candidate is attempted.
C10_UnsupportedModelAborts ==
    \A p \in handlers :
        /\ \A i \in 1..proc[p].idx :
              proc[p].models[i] \notin DOMAIN llmModelNames =>
                  /\ proc[p].pc = "done"
                  /\ proc[p].err = "unsupported model"
                  /\ proc[p].idx = i
                  /\ proc[p].summary = ""
                  /\ proc[p].model = Unspecified
                  /\ obs[p].attempted = SubSeq(proc[p].models, 1, i - 1)
        /\ obs[p].contact \in DOMAIN llmModelNames \cup {Unspecified}
        /\ obs[p].sleeps <= Len(obs[p].attempted)

\* The second candidate of a list has no name: the first one failed, one
\* backoff was slept, and the call ended before the third candidate.
C10_Witness ==
    \E p \in handlers :
        /\ proc[p].pc = "done"
        /\ proc[p].err = "unsupported model"
        /\ proc[p].idx = 2
        /\ Len(proc[p].models) = 3
        /\ obs[p].sleeps = 1

\* ----------------------------------------------------------------- C11
\* C11: with an empty credential the first attempt fails before any backend
\* call, and Summarize neither attempts the remaining candidates of the
\* fallback list nor waits the retry backoff.
C11_MissingCredentialNotRetried ==
    \A p \in handlers :
        (apiKey = "" /\ proc[p].entry = "Summarize") =>
            /\ obs[p].contact = Unspecified
            /\ obs[p].genCalls = 0
            /\ Len(obs[p].attempted) <= 1
            /\ obs[p].sleeps = 0

\* ----------------------------------------------------------------- C12
\* C12: Summarize with a family outside supportedModelFamily is rejected at
\* once with an unsupported-family error: no candidate is attempted, the
\* backend receives no count or generate call, and the tracker is unchanged.
C12_UnsupportedFamilyRejected ==
    /\ [](\A p \in handlers :
            (proc[p].entry = "Summarize"
               /\ proc[p].family \notin Elems(supportedModelFamily)) =>
                /\ proc[p].pc = "done"
                /\ proc[p].err = "unsupported model family"
                /\ proc[p].summary = ""
                /\ proc[p].models = <<>>
                /\ obs[p].attempted = <<>>
                /\ obs[p].contact = Unspecified
                /\ obs[p].genCalls = 0
                /\ obs[p].sleeps = 0)
    /\ [][\A p \in handlers :
            (proc'[p] # proc[p] /\ proc'[p].entry = "Summarize"
               /\ proc'[p].family \notin Elems(supportedModelFamily)) =>
                /\ records' = records
                /\ appended' = appended]_vars

\* A Summarize request for the unspecified family has been rejected.
C12_Witness ==
    \E p \in handlers :
        /\ proc[p].entry = "Summarize"
        /\ proc[p].family = "MODEL_FAMILY_UNSPECIFIED"
        /\ proc[p].pc = "done"
        /\ proc[p].err = "unsupported model family"

\* ----------------------------------------------------------------- C13
\* C13: when CheckLimit reports a violation for the measured size of an
\* attempt, that attempt fails with the resource-exhaustion error and
\* GenerateContent is never invoked for it.
C13_ViolationSkipsGenerate ==
    /\ [](\A p \in handlers :
            /\ proc[p].pc = "violation" => obs[p].gen = 0
            /\ (proc[p].pc = "failed" /\ proc[p].err = LimitExceededMsg) =>
                  /\ obs[p].gen = 0
                  /\ obs[p].recorded = 0
                  /\ obs[p].outcome = "failed")
    /\ [][\A p \in handlers :
            LET reported == hasTracker
                              /\ checkLimitMsg(records, proc[p].count, limit, now) # ""
            IN  /\ (proc[p].pc = "counted" /\ proc'[p].pc # "counted"
                      /\ proc'[p].pc # "failed" /\ reported) =>
                      proc'[p].pc = "violation"
                /\ (proc[p].pc = "violation" /\ proc'[p].pc # "violation") =>
                      /\ proc'[p].pc = "failed"
                      /\ proc'[p].err = LimitExceededMsg
                      /\ obs'[p].gen = 0
                      /\ obs'[p].genCalls = obs[p].genCalls
                /\ obs'[p].genCalls > obs[p].genCalls => proc[p].pc = "checked"]_vars

\* An attempt was measured, hit the ceiling and failed without a generate call.
C13_Witness ==
    \E p \in handlers :
        /\ proc[p].pc = "failed"
        /\ proc[p].err = LimitExceededMsg
        /\ obs[p].contact = proc[p].models[proc[p].idx]
        /\ obs[p].gen = 0

\* ----------------------------------------------------------------- C14
\* C14 as stated: a request rejected because of the budget has issued no
\* backend call at all, neither a count call nor a generate call.
C14_BudgetBreachBeforeAnyCall ==
    \A p \in handlers :
        (proc[p].pc = "failed" /\ proc[p].err = LimitExceededMsg) =>
            /\ obs[p].contact = Unspecified
            /\ obs[p].genCalls = 0

\* C14 as amended: a budget breach fails the attempt after its count call and
\* before its generate call: the rejected attempt has asked the backend to
\* measure its input for its own model and has issued no generate call.
C14_BudgetBreachBeforeGenerate ==
    \A p \in handlers :
        (proc[p].pc = "failed" /\ proc[p].err = LimitExceededMsg) =>
            /\ obs[p].attempted # <<>>
            /\ obs[p].contact = obs[p].attempted[Len(obs[p].attempted)]
            /\ obs[p].gen = 0
            /\ obs[p].genCalls < Len(obs[p].attempted)

\* The second candidate of a request was rejected by the budget after the
\* first one had generated.
C14_Witness ==
    \E p \in handlers :
        /\ proc[p].pc = "failed"
        /\ proc[p].err = LimitExceededMsg
        /\ Len(obs[p].attempted) = 2
        /\ obs[p].genCalls = 1

\* ----------------------------------------------------------------- C15
\* C15: the truncate-and-re-measure loop terminates for every text, every
\* maxInputTokens and every sequence of CountTokens answers: an iteration
\* runs only on a non-empty text, which it strictly shortens; once the text
\* is empty the loop runs no further iteration.
C15_TruncateLoopStops ==
    [][\A p \in handlers :
          (proc[p].pc = "counted" /\ proc'[p].pc = "counted" /\ proc'[p] # proc[p]) =>
              /\ proc[p].text # ""
              /\ Len(proc'[p].text) < Len(proc[p].text)]_vars

\* ----------------------------------------------------------------- C16
\* C16: each truncation step replaces a text of length L by its prefix of
\* length floor(9L/10).
C16_TruncateToNineTenths ==
    [][\A p \in handlers :
          (proc[p].pc = "counted" /\ proc'[p].pc = "counted" /\ proc'[p] # proc[p]) =>
              LET L == Len(proc[p].text)
              IN  proc'[p].text = SubSeq(proc[p].text, 1, (9 * L) \div 10)]_vars

\* ----------------------------------------------------------------- C17
\* C17: the first input an attempt asks the backend to measure is exactly the
\* prompt, one newline, then the body; when no truncation happens the same
\* text is what GenerateContent receives.
C17_PromptNewlineBody ==
    [][\A p \in handlers :
          LET expected == proc[p].prompt \o "\n" \o proc[p].content
          IN  /\ (obs'[p].measured # obs[p].measured /\ obs'[p].measured # "") =>
                    /\ proc[p].pc = "loop"
                    /\ obs'[p].measured = expected
              /\ obs'[p].genCalls > obs[p].genCalls =>
                    /\ obs'[p].sent = proc[p].text
                    /\ ~obs[p].truncated =>
                          /\ obs'[p].sent = obs[p].measured
                          /\ obs'[p].sent = expected]_vars

\* An attempt measured its input, did not truncate, and called GenerateContent.
C17_Witness ==
    \E p \in handlers :
        /\ obs[p].gen = 1
        /\ ~obs[p].truncated
        /\ obs[p].measured = "P:\n0123456789ab"
        /\ obs[p].sent = obs[p].measured

\* ----------------------------------------------------------------- C18
\* C18: after a successful generation the tracker gains exactly one record,
\* whose cost is the backend-reported total token count when the response
\* carries usage metadata and otherwise the last measured input size of that
\* attempt.
C18_OneRecordPerGeneration ==
    /\ [](\A p \in handlers :
            /\ (hasTracker /\ obs[p].outcome \in {"ok", "empty"}) =>
                  /\ obs[p].gen = 1
                  /\ obs[p].recorded = 1
            /\ obs[p].recorded <= obs[p].gen
            /\ ~hasTracker => obs[p].recorded = 0 /\ appended = <<>>)
    /\ [][\A p \in handlers :
            /\ obs'[p].recorded > obs[p].recorded =>
                  LET cost == IF proc[p].resp.hasUsage THEN proc[p].resp.total
                              ELSE proc[p].count
                      r == [timestamp |-> now, tokens |-> cost]
                  IN  /\ proc[p].pc = "generated"
                      /\ proc[p].resp.kind = "ok"
                      /\ obs'[p].recorded = 1
                      /\ records' = Append(records, r)
                      /\ appended' = Append(appended, r)
            /\ (handlers = {p} /\ appended' # appended) =>
                  obs'[p].recorded > obs[p].recorded]_vars

\* A response without usage metadata was recorded at the size measured after
\* a truncation.
C18_Witness ==
    \E p \in handlers :
        /\ proc[p].pc = "recorded"
        /\ ~proc[p].resp.hasUsage
        /\ obs[p].truncated
        /\ obs[p].recorded = 1
        /\ records # <<>>
        /\ records[Len(records)].tokens = proc[p].count

\* ----------------------------------------------------------------- C19
\* C19: once the request's ctx is cancelled during a Summarize call, no
\* backoff is slept and no further candidate is attempted before Summarize
\* returns.
C19_CancelSkipsBackoff ==
    [][\A p \in handlers :
          (proc[p].entry = "Summarize" /\ proc[p].cancelled) =>
              /\ obs'[p].sleeps = obs[p].sleeps
              /\ obs'[p].attempted = obs[p].attempted]_vars

\* ----------------------------------------------------------------- C20
\* C20: WaitForHealthy returns success if and only if, for every connection
\* of the pool, some probe issued before the deadline reported SERVING; probe
\* errors and non-serving statuses seen earlier never fail a service by
\* themselves, only reaching the deadline does.
C20_HealthyIffAllServed ==
    /\ [](/\ waited \notin {"none", "running"} =>
               /\ waited \in {"nil", "health check failed"}
               /\ (waited = "nil") <=> (\A s \in services : pollers[s].served)
          /\ \A s \in services :
               /\ pollers[s].sent = "timeout" => ctxDone /\ ~pollers[s].served
               /\ pollers[s].sent = "nil" => pollers[s].served
               /\ (pollers[s].bad /\ ~ctxDone /\ pollers[s].sent = "none") =>
                     pollers[s].pc \in {"select", "check"})
    /\ [][\A s \in services :
            (pollers'[s].sent = "timeout" /\ pollers[s].sent # "timeout") =>
                /\ ctxDone
                /\ pollers[s].pc = "select"]_vars

\* WaitForHealthy succeeded for a pool of two or more services, one of which
\* had answered an error or a non-serving status before it reported SERVING.
C20_Witness ==
    /\ waited = "nil"
    /\ Cardinality(services) >= 2
    /\ \E s \in services : pollers[s].bad /\ pollers[s].served

\* ----------------------------------------------------------------- C21
\* C21: when WaitForHealthy fails, its aggregate error enumerates exactly the
\* services whose poller reached the deadline without a SERVING probe: one
\* entry per such service and none for a service that reported SERVING.
C21_ErrorNamesUnservedServices ==
    /\ waited = "health check failed" =>
          /\ errors # <<>>
          /\ NoDuplicates(errors)
          /\ Elems(errors) = {s \in services : ~pollers[s].served}
          /\ \A s \in Elems(errors) : pollers[s].sent = "timeout" /\ ctxDone
    /\ waited # "health check failed" => errors = <<>>

\* WaitForHealthy failed for three services, one of which had reported SERVING.
C21_Witness ==
    /\ waited = "health check failed"
    /\ Cardinality(services) = 3
    /\ Len(errors) = 2
    /\ \E s \in services : pollers[s].served

\* ----------------------------------------------------------------- C22
\* C22: given 3 services of which 2 are healthy within 200 ms and 1 never is,
\* and a deadline of 500 ms, WaitForHealthy returns, not before the deadline,
\* an aggregate error naming exactly the one unhealthy service.
C22_ScenarioNamesUnhealthyService ==
    LET quick == {s \in services : healthyFrom[s] # Never /\ healthyFrom[s] <= 2}
        dead == {s \in services : healthyFrom[s] = Never}
    IN  (/\ Cardinality(services) = 3
         /\ Cardinality(quick) = 2
         /\ Cardinality(dead) = 1
         /\ deadline = 5
         /\ waited \notin {"none", "running"}) =>
            /\ waited = "health check failed"
            /\ elapsed >= deadline
            /\ Elems(errors) = dead

\* ----------------------------------------------------------------- C23
\* C23: for every ctx and every timeout value passed to WaitForHealthy,
\* polling stops once the timeout has elapsed, whatever the probes answer:
\* no probe is issued on a live ctx at or after the timeout.
C23_TimeoutStopsPolling ==
    [][\A s \in services :
          (pollers'[s].probes > pollers[s].probes /\ ~pollers'[s].late) =>
              elapsed < timeout]_vars

\* ----------------------------------------------------------------- C24
\* C24: WaitForHealthy returns only after every poller has finished: never
\* early on the first failure or the first success, and no poller is still
\* running when it returns.
C24_ReturnsAfterAllPollers ==
    /\ [](waited \notin {"none", "running"} =>
            \A s \in services : pollers[s].pc = "done" /\ pollers[s].sent # "none")
    /\ [][(waited = "running" /\ waited' # "running") =>
            /\ \A s \in services : pollers[s].pc = "done"
            /\ Len(errChan) = Cardinality(services)]_vars

\* WaitForHealthy returned for three services of which one had reported
\* SERVING at the first tick and another one timed out.
C24_Witness ==
    /\ waited = "health check failed"
    /\ Cardinality(services) = 3
    /\ \E s, t \in services :
          /\ pollers[s].sent = "nil" /\ pollers[s].probes = 1
          /\ pollers[t].sent = "timeout"

\* ----------------------------------------------------------------- C25
\* C25: at startup the HTTP server begins serving only after the pool has
\* been built and WaitForHealthy has returned success; a readiness failure is
\* fatal to startup and the server never starts serving.
C25_ServesOnlyWhenHealthy ==
    /\ [](mainPc = "serving" =>
            /\ pool = "ready"
            /\ todo = <<>>
            /\ services = Services
            /\ \A s \in services : conns[s].state = "open"
            /\ waited = "nil"
            /\ \A s \in services : pollers[s].served)
    /\ []((waited = "health check failed" /\ mainPc # "wait") => mainPc = "fatal")
    /\ [][mainPc = "fatal" => mainPc' = "fatal"]_vars

\* The server is serving after one service first answered a non-serving
\* status or an error and then SERVING.
C25_Witness ==
    /\ mainPc = "serving"
    /\ \E s \in services : pollers[s].bad

C28_NoCostLostOrDoubled ==
    /\ IsSuffix(records, appended)
    /\ inWindow(records, now) = inWindow(appended, now)
    /\ ret.op = "Record" =>
          /\ records # <<>>
          /\ records[Len(records)] = tokenRecord(ret.at, ret.tokens)
    /\ ret.op = "CurrentUsage" =>
          LET s == exactSum(inWindow(appended, ret.at))
          IN  ~s.over /\ ret.usage = s.val

\* C28 restricted to histories whose in-window sum is below 2^31.
C28_NoCostLostOrDoubledBelow2p31 ==
    /\ IsSuffix(records, appended)
    /\ inWindow(records, now) = inWindow(appended, now)
    /\ ret.op = "Record" =>
          /\ records # <<>>
          /\ records[Len(records)] = tokenRecord(ret.at, ret.tokens)
    /\ ret.op = "CurrentUsage" =>
          LET s == exactSum(inWindow(appended, ret.at))
          IN  ~s.over => ret.usage = s.val

\* ----------------------------------------------------------------- C29
\* The order README.md documents for automatic fallback.
DocumentedPriority ==
    <<"MODEL_GEMINI_2_5_FLASH_LITE", "MODEL_GEMINI_2_5_FLASH",
      "MODEL_GEMINI_3_FLASH_PREVIEW">>

IsPrefix(a, b) ==
    /\ Len(a) <= Len(b)
    /\ a = SubSeq(b, 1, Len(a))

\* C29: when a Summarize request names no model the candidates are tried in
\* the order gemini-2.5-flash-lite, gemini-2.5-flash, gemini-3-flash-preview,
\* and gemini-2.5-pro is attempted only when the request names it.
C29_CheapestFirstProOnlyOnRequest ==
    \A p \in Handlers :
        proc[p].entry = "Summarize" =>
            /\ proc[p].reqModel = Unspecified =>
                  IsPrefix(obs[p].attempted, DocumentedPriority)
            /\ Contains(obs[p].attempted, "MODEL_GEMINI_2_5_PRO") =>
                  proc[p].reqModel = "MODEL_GEMINI_2_5_PRO"

\* ----------------------------------------------------------------- C30
\* C30: a CheckLimit call, whether it passes or fails, appends no record and
\* leaves the value CurrentUsage returns at that time unchanged; all it may do
\* to the records is drop leading (expired) ones.
C30_CheckLimitNeverRecords ==
    [][(ret'.op = "CheckLimit" /\ now' = now) =>
          /\ appended' = appended
          /\ IsSuffix(records', records)
          /\ total32(prune(records', now)) = total32(prune(records, now))]_vars

\* A CheckLimit call that pruned an expired record and reported a violation.
C30_Witness ==
    /\ ret.op = "CheckLimit"
    /\ ret.msg = LimitExceededMsg
    /\ records # <<>>
    /\ Len(records) < Len(appended)

\* ----------------------------------------------------------------- C31
\* C31: after any sequence of Record, CurrentUsage and CheckLimit calls, for
\* any injected time source, the tracker's records are sorted ascending by
\* timestamp.
C31_RecordsSortedByTimestamp ==
    \A i, j \in 1..Len(records) :
        i < j => records[i].timestamp <= records[j].timestamp

\* ----------------------------------------------------------------- C32
\* C32: no operation removes a record whose timestamp lies within the window:
\* the records a step removes are leading records strictly older than
\* now - window, a record stamped exactly now - window is kept, and
\* CurrentUsage counts every kept record.
C32_InWindowRecordsKept ==
    [][
       /\ \E k \in 0..Len(records) :
             /\ \A i \in 1..k : records[i].timestamp < now - Window
             /\ IsPrefix(SubSeq(records, k + 1, Len(records)), records')
       /\ (ret'.op = "CurrentUsage" /\ ret' # ret) =>
             /\ IsSuffix(inWindow(records, now), records')
             /\ ret'.usage = total32(records')
    ]_vars

\* CurrentUsage dropped an expired record and kept the one stamped exactly
\* now - window.
C32_Witness ==
    /\ ret.op = "CurrentUsage"
    /\ ret.at = now
    /\ Len(records) < Len(appended)
    /\ records # <<>>
    /\ records[1].timestamp = now - Window
    /\ ret.usage = records[1].tokens
    /\ ret.usage > 0

\* ----------------------------------------------------------------- C33
\* C33: whenever an attempt calls GenerateContent, the size answered by the
\* latest CountTokens call is at most maxTokens, the text sent is a prefix of
\* prompt + newline + body, it is the text of that latest CountTokens call,
\* and (with a tracker) that size is the one CheckLimit was called with.
C33_SentTextIsMeasuredPrefix ==
    [][\A p \in Handlers :
          obs'[p].gen = obs[p].gen + 1 =>
              /\ obs[p].lastSize <= proc[p].maxTokens
              /\ IsPrefix(obs'[p].sent, contentWithPrompt(proc[p].prompt, proc[p].content))
              /\ obs'[p].sent = obs[p].lastText
              /\ hasTracker => obs[p].budgeted = obs[p].lastSize]_vars

\* GenerateContent was called with a truncated text after a budget check.
C33_Witness ==
    \E p \in Handlers :
        /\ obs[p].gen = 1
        /\ obs[p].truncated
        /\ obs[p].sent = "P:\n012345"
        /\ obs[p].lastText = obs[p].sent
        /\ obs[p].budgeted = obs[p].lastSize
        /\ obs[p].lastSize = 1

\* ----------------------------------------------------------------- C34
\* C34: after every unsuccessful candidate, whether its attempt returned an
\* error or an empty summary, summaryInternal sleeps the backoff once before
\* it attempts the next candidate: when the n-th attempt is running, n - 1
\* backoffs were slept, and never more backoffs than attempts.
C34_BackoffAfterEveryUnsuccessfulCandidate ==
    \A p \in Handlers :
        /\ obs[p].sleeps <= Len(obs[p].attempted)
        /\ obs[p].sleeps >= Len(obs[p].attempted) - 1

\* C34 for attempts that returned an error only.
C34_BackoffAfterEveryError ==
    [][\A p \in Handlers :
          /\ (proc[p].pc = "failed" /\ proc'[p].pc # "failed") =>
                /\ obs'[p].sleeps = obs[p].sleeps + 1
                /\ obs'[p].attempted = obs[p].attempted
          /\ (proc[p].pc # "failed" \/ proc'[p].pc = "failed") =>
                obs'[p].sleeps = obs[p].sleeps \/ obs'[p].sleeps = 0]_vars

\* ----------------------------------------------------------------- C35
\* The times at which a request was admitted to the handler.
admittedAt == SelectSeq(requests, LAMBDA r : r.next)

C35_AtMostTwoPerWindow ==
    /\ [](requestsCount <= RequestLimit)
    /\ [](\A i \in 1..Len(requests) : requests[i].status = 503 <=> ~requests[i].next)
    /\ [][(Len(requests') > Len(requests) /\ requests'[Len(requests')].status = 503) =>
             /\ requestsCount' = requestsCount
             /\ resetTime' = resetTime
             /\ requestsCount = RequestLimit]_vars

\* ----------------------------------------------------------------- C36
\* The goroutines of WaitForHealthy that have returned.
donePollers == {s \in services : pollers[s].pc = "done"}

\* C36: every poller delivers exactly one outcome (nil or a timeout error)
\* and never blocks delivering it, errChan having one slot per connection:
\* while WaitForHealthy runs errChan holds one value per returned goroutine
\* and never more than len(services), a goroutine that has sent sends nothing
\* more, and WaitForHealthy returns with all goroutines done after receiving
\* exactly len(services) outcomes.
C36_OneOutcomePerPoller ==
    /\ [](waited = "running" =>
            /\ Len(errChan) <= Cardinality(services)
            /\ Len(errChan) = Cardinality(donePollers)
            /\ \A s \in services :
                  pollers[s].pc = "done" <=> pollers[s].sent # "none")
    /\ [][\A s \in services :
             pollers[s].sent # "none" =>
                 /\ pollers'[s] = pollers[s]
                 /\ Len(errChan') <= Len(errChan) + Cardinality(services \ donePollers)]_vars
    /\ [][(waited = "running" /\ waited' # "running") =>
             /\ donePollers = services
             /\ Len(errChan) = Cardinality(services)
             /\ Len(errors') <= Len(errChan)]_vars

\* WaitForHealthy returned for a pool of three after one goroutine sent nil
\* and the two others a timeout error.
C36_Witness ==
    /\ services = Services
    /\ waited = "health check failed"
    /\ Len(errors) = 2
    /\ Cardinality({s \in services : pollers[s].sent = "nil"}) = 1
    /\ Cardinality({s \in services : pollers[s].sent = "timeout"}) = 2

\* ----------------------------------------------------------------- C37
\* C37: with a tracker, recording depends only on the structural validity of
\* the response, not on its text: an attempt whose GenerateContent returned a
\* valid response has recorded exactly once when it ends, with empty text
\* (the loop falls through to the next candidate) as with non-empty text; an
\* attempt that failed has recorded nothing; every recording appends one
\* record.
C37_ValidResponseIsRecorded ==
    /\ [](hasTracker =>
            \A p \in Handlers :
                /\ obs[p].outcome \in {"ok", "empty"} =>
                      obs[p].gen = 1 /\ obs[p].recorded = 1
                /\ obs[p].outcome = "failed" => obs[p].recorded = 0)
    /\ [][\A p \in Handlers :
             obs'[p].recorded = obs[p].recorded + 1 =>
                 /\ Len(appended') = Len(appended) + 1
                 /\ Len(records') = Len(records) + 1]_vars

\* A Summarize call ended in the aggregate error after an attempt with empty
\* text, and CurrentUsage has grown by the usage of that attempt.
C37_Witness ==
    \E p \in Handlers :
        /\ proc[p].pc = "done"
        /\ proc[p].entry = "Summarize"
        /\ proc[p].err = AggregateErr
        /\ obs[p].outcome = "empty"
        /\ obs[p].recorded = 1
        /\ obs[p].before = <<>>
        /\ Len(records) = 1
        /\ total32(prune(records, now)) > 0

\* ----------------------------------------------------------------- C38
\* C38: for a non-empty pool WaitForHealthy never returns nil before one
\* ticker period (500 ms) has elapsed, each goroutine issuing its first Check
\* at the first tick; with a ctx deadline shorter than the period it reports
\* every service as timed out, serving or not.
C38_NoSuccessBeforeFirstTick ==
    /\ (waited = "nil" /\ services # {}) => elapsed >= TickerPeriod
    /\ \A s \in services : pollers[s].probes > 0 => elapsed >= TickerPeriod
    /\ (waited \notin {"none", "running"} /\ services # {}
          /\ deadline # NoDeadline /\ deadline < TickerPeriod) =>
            /\ waited = "health check failed"
            /\ Elems(errors) = services
            /\ Len(errors) = Cardinality(services)

\* Three services serving from the start, a deadline of 300 ms: all three are
\* reported as timed out.
C38_Witness ==
    /\ services = Services
    /\ \A s \in services : healthyFrom[s] = 0
    /\ deadline = TickerPeriod - 2
    /\ waited = "health check failed"
    /\ Len(errors) = 3

\* ----------------------------------------------------------------- C39
\* The unbounded sum of non-negative costs as carries * 2^31 + val, with
\* 0 <= val < 2^31, so that no intermediate value leaves the 32-bit range.
wideAdd(w, c) ==
    IF c > MaxInt32 - w.val
    THEN [carries |-> w.carries + 1, val |-> (w.val - (MaxInt32 - c)) - 1]
    ELSE [carries |-> w.carries, val |-> w.val + c]

RECURSIVE wideSum(_)
wideSum(recs) ==
    IF recs = <<>> THEN [carries |-> 0, val |-> 0]
    ELSE wideAdd(wideSum(SubSeq(recs, 1, Len(recs) - 1)), recs[Len(recs)].tokens)

\* The value of carries * 2^31 + val modulo 2^32, read as a signed int32.
asInt32(w) == IF w.carries % 2 = 0 THEN w.val ELSE (w.val - MaxInt32) - 1

\* C39: CheckLimit and CurrentUsage add in 32-bit signed arithmetic: for an
\* in-window sum s and a cost c with s + c < 2^31 CheckLimit answers as the
\* comparison on unbounded integers does, and for every s + c >= 2^31 the
\* addition wraps negative and CheckLimit passes.
C39_WrapAlwaysPasses ==
    (ret.op = "CheckLimit" /\ limit > 0) =>
        LET w == wideAdd(wideSum(inWindow(appended, ret.at)), ret.tokens)
        IN  /\ w.carries = 0 => ((ret.msg = "") <=> w.val <= limit)
            /\ w.carries >= 1 => (asInt32(w) < 0 /\ ret.msg = "")

\* C39 with the wrap taken modulo 2^32: the answers of CheckLimit and
\* CurrentUsage are those of the sum reduced to an int32; for s + c < 2^31
\* that is the unbounded comparison, for 2^31 <= s + c < 2^32 the reduced sum
\* is negative and CheckLimit passes.
C39_WrapPassesBelow2p32 ==
    /\ (ret.op = "CheckLimit" /\ limit > 0) =>
          LET w == wideAdd(wideSum(inWindow(appended, ret.at)), ret.tokens)
          IN  /\ (ret.msg = "") <=> asInt32(w) <= limit
              /\ w.carries = 0 => ((ret.msg = "") <=> w.val <= limit)
              /\ w.carries = 1 => (asInt32(w) < 0 /\ ret.msg = "")
    /\ ret.op = "CurrentUsage" =>
          ret.usage = asInt32(wideSum(inWindow(appended, ret.at)))

\* CheckLimit passed although the in-window sum plus the cost is 2^31 or more.
C39_Witness ==
    /\ ret.op = "CheckLimit"
    /\ limit > 0
    /\ ret.msg = ""
    /\ wideAdd(wideSum(inWindow(appended, ret.at)), ret.tokens).carries = 1

====
